---- MODULE Spec2Model ----
(***************************************************************************)
(* Model of the two scripts of the repository:                             *)
(*   src/iblrig/prefc.py  the pre-flight checklist (independent probes and *)
(*                        the calibration freshness check)                 *)
(*   src/install.py       the environment installer run by main            *)
(* One behaviour runs one program: the calibration check on one parameter  *)
(* store, one probe against one outcome of its collaborators' calls, or    *)
(* one installer entry point (main, or one of its steps called directly).  *)
(***************************************************************************)
EXTENDS Integers, Sequences, FiniteSets, TLC

VARIABLES
    prog,       \* which program this behaviour runs: "cal", "probe", "install"
    pardict,    \* prefc: the DATE entries of the parameter file (key -> string)
    today,      \* prefc: datetime.datetime.now().date() as <<year, month, day>>
    calRes,     \* prefc: result of calibration_dates_ok, or NotCalled
    probeIn,    \* prefc: the probe to run and what its collaborators will do
    probeRes,   \* prefc: result of the probe that ran, or NotCalled
    inst        \* install.py: the installer's state (a record, see InstInit)

vars == <<prog, pardict, today, calRes, probeIn, probeRes, inst>>

NotCalled == [called |-> FALSE]

(***************************************************************************)
(* Calendar arithmetic: datetime.date, datetime.timedelta(days=n) and      *)
(* dateutil.relativedelta(months=n) as prefc.py uses them.                 *)
(***************************************************************************)
IsLeap(y) == (y % 4 = 0 /\ y % 100 # 0) \/ y % 400 = 0

DaysInMonth(y, m) ==
    IF m = 2 THEN (IF IsLeap(y) THEN 29 ELSE 28)
    ELSE IF m \in {4, 6, 9, 11} THEN 30 ELSE 31

\* date.__lt__: lexicographic on (year, month, day)
DateLT(a, b) ==
    \/ a[1] < b[1]
    \/ a[1] = b[1] /\ a[2] < b[2]
    \/ a[1] = b[1] /\ a[2] = b[2] /\ a[3] < b[3]

NextDay(d) ==
    IF d[3] < DaysInMonth(d[1], d[2]) THEN <<d[1], d[2], d[3] + 1>>
    ELSE IF d[2] < 12 THEN <<d[1], d[2] + 1, 1>>
    ELSE <<d[1] + 1, 1, 1>>

RECURSIVE AddDays(_, _)
\* date + datetime.timedelta(days=n), n >= 0
AddDays(d, n) == IF n = 0 THEN d ELSE AddDays(NextDay(d), n - 1)

\* date + relativedelta(months=n): the month moves, the day is clamped to
\* the last day of the target month
AddMonths(d, n) ==
    LET total == (d[2] - 1) + n
        y == d[1] + (total \div 12)
        m == (total % 12) + 1
        last == DaysInMonth(y, m)
    IN <<y, m, IF d[3] > last THEN last ELSE d[3]>>

(***************************************************************************)
(* The "%Y-%m-%d" strings of the parameter file.  A string is a sequence   *)
(* of one-character strings; Absent is a value that is falsy in Python     *)
(* (None or the empty string).                                             *)
(***************************************************************************)
Absent == <<>>

Digits == <<"0", "1", "2", "3", "4", "5", "6", "7", "8", "9">>

DigitChar(n) == Digits[n + 1]

DigitVal(c) == (CHOOSE i \in 1..10 : Digits[i] = c) - 1

IsDigit(c) == \E i \in 1..10 : Digits[i] = c

RECURSIVE ParseInt(_)
ParseInt(s) ==
    IF Len(s) = 0 THEN 0
    ELSE 10 * ParseInt(SubSeq(s, 1, Len(s) - 1)) + DigitVal(s[Len(s)])

\* date.isoformat(): zero padded YYYY-MM-DD (how the dates get into the file)
IsoFormat(d) ==
    << DigitChar(d[1] \div 1000), DigitChar((d[1] \div 100) % 10),
       DigitChar((d[1] \div 10) % 10), DigitChar(d[1] % 10), "-",
       DigitChar(d[2] \div 10), DigitChar(d[2] % 10), "-",
       DigitChar(d[3] \div 10), DigitChar(d[3] % 10) >>

\* does datetime.datetime.strptime(v, "%Y-%m-%d") accept v (zero padded form)
StrptimeOk(v) ==
    /\ Len(v) = 10
    /\ v[5] = "-" /\ v[8] = "-"
    /\ \A i \in {1, 2, 3, 4, 6, 7, 9, 10} : IsDigit(v[i])
    /\ LET m == ParseInt(SubSeq(v, 6, 7))
           d == ParseInt(SubSeq(v, 9, 10))
       IN m \in 1..12 /\ d \in 1..DaysInMonth(ParseInt(SubSeq(v, 1, 4)), m)

\* datetime.datetime.strptime(v, "%Y-%m-%d").date()
Strptime(v) ==
    <<ParseInt(SubSeq(v, 1, 4)), ParseInt(SubSeq(v, 6, 7)), ParseInt(SubSeq(v, 9, 10))>>

(***************************************************************************)
(* calibration_dates_ok                                                    *)
(***************************************************************************)
DateKeys ==
    {"F2TTL_CALIBRATION_DATE", "SCREEN_FREQ_TEST_DATE", "SCREEN_LUX_DATE",
     "WATER_CALIBRATION_DATE", "BPOD_TTL_TEST_DATE"}

\* the thresh dictionary
thresh ==
    [k \in DateKeys |->
        CASE k = "F2TTL_CALIBRATION_DATE" -> [unit |-> "days", n |-> 7]
          [] k = "SCREEN_FREQ_TEST_DATE"  -> [unit |-> "months", n |-> 4]
          [] k = "SCREEN_LUX_DATE"        -> [unit |-> "months", n |-> 4]
          [] k = "WATER_CALIBRATION_DATE" -> [unit |-> "months", n |-> 1]
          [] k = "BPOD_TTL_TEST_DATE"     -> [unit |-> "months", n |-> 4]]

\* subdict[k] + thresh[k]
AddThresh(d, k) ==
    IF thresh[k].unit = "days" THEN AddDays(d, thresh[k].n)
    ELSE AddMonths(d, thresh[k].n)

\* Python truth of a parameter value
Truthy(v) == v # Absent

\* cal_dates_exist = True if all(subdict.values()) else False
CalDatesExist_any(subdict) == \E k \in DOMAIN subdict : Truthy(subdict[k])

CalDatesExist(subdict) == \A k \in DOMAIN subdict : Truthy(subdict[k])

\* out[k] = subdict[k] + thresh[k] < today, as "True"/"False"; dict.fromkeys
\* leaves "None"
OutEntry(d, k, now) == IF DateLT(AddThresh(d, k), now) THEN "True" ELSE "False"

\* The whole function.  ret is all(out.values()); parsed tells whether the
\* else branch (strptime and the comparisons) ran; raised tells whether
\* strptime raised there.
calibration_dates_ok(subdict, now) ==
    LET exist == CalDatesExist(subdict)
        bad == exist /\ \E k \in DOMAIN subdict : ~StrptimeOk(subdict[k])
        out == IF ~exist
               THEN [k \in DOMAIN subdict |-> "None"]
               ELSE IF bad THEN [k \in DOMAIN subdict |-> "None"]
               ELSE [k \in DOMAIN subdict |-> OutEntry(Strptime(subdict[k]), k, now)]
    IN [called |-> TRUE,
        parsed |-> exist,
        raised |-> bad,
        out |-> out,
        ret |-> ~bad /\ \A k \in DOMAIN subdict : out[k] = "True"]

\* Calibration dates the parameter file may hold, and the days on which the
\* check may run: around the 7 day, 1 month and 4 month boundaries of
\* 2021-07-01 and 2021-06-30 (which has no 4 month boundary date).
CalDates ==
    { <<2021, 2, 28>>, <<2021, 3, 1>>, <<2021, 5, 31>>, <<2021, 6, 1>>,
      <<2021, 6, 23>>, <<2021, 6, 24>> }

Todays == { <<2021, 6, 30>>, <<2021, 7, 1>> }

DateValues == {IsoFormat(d) : d \in CalDates} \cup {Absent}

CalInit ==
    /\ prog = "cal"
    /\ pardict \in [DateKeys -> DateValues]
    /\ today \in Todays

CallCalibrationDatesOk ==
    /\ prog = "cal"
    /\ calRes = NotCalled
    /\ calRes' = calibration_dates_ok(pardict, today)
    /\ UNCHANGED <<prog, pardict, today, probeIn, probeRes, inst>>

(***************************************************************************)
(* The probes of prefc.py.  A probe makes its calls in program order; the  *)
(* input "faults" is the set of calls that raise when they are reached.    *)
(* A result records the value returned (ret, meaningless when raised), if  *)
(* an exception left the probe (raised), the state of the device handle    *)
(* the probe opened ("none", "open", "closed") and the calls it reached.   *)
(***************************************************************************)
\* index of the first call of calls that raises, 0 when none does
FirstFault(calls, faults) ==
    IF \E i \in 1..Len(calls) : calls[i] \in faults
    THEN CHOOSE i \in 1..Len(calls) :
            /\ calls[i] \in faults
            /\ \A j \in 1..(i - 1) : calls[j] \notin faults
    ELSE 0

\* the calls reached: all of them, or those up to the first one that raises
Reached(calls, faults) ==
    LET i == FirstFault(calls, faults)
    IN {calls[j] : j \in 1..(IF i = 0 THEN Len(calls) ELSE i)}

Result(p, ret, raised, handle, attempted) ==
    [called |-> TRUE, probe |-> p, ret |-> ret, raised |-> raised,
     handle |-> handle, attempted |-> attempted]

\* bin(n) for n >= 0
RECURSIVE BinDigits(_)
BinDigits(n) ==
    IF n < 2 THEN <<DigitChar(n)>> ELSE BinDigits(n \div 2) \o <<DigitChar(n % 2)>>

Bin(n) == <<"0", "b">> \o BinDigits(n)

\* params_comports_ok: no try block; subdict.values() raises when
\* _grep_param_dict returned a single value instead of a dict
params_comports_ok_calls == <<"load_params_file", "values">>

params_comports_ok(in) ==
    LET i == FirstFault(params_comports_ok_calls, in.faults)
    IN Result("params_comports_ok", in.flag, i # 0, "none",
              Reached(params_comports_ok_calls, in.faults))

\* alyx_ok: ONE() inside try / except BaseException
alyx_ok_calls == <<"ONE">>

alyx_ok(in) ==
    Result("alyx_ok", FirstFault(alyx_ok_calls, in.faults) = 0, FALSE, "none",
           Reached(alyx_ok_calls, in.faults))

\* local_server_ok and rig_data_folder_ok: no try block; in.flag is the
\* value of Path(...).exists()
folder_ok_calls == <<"load_params_file", "getitem", "exists">>

local_server_ok(in) ==
    LET i == FirstFault(folder_ok_calls, in.faults)
    IN Result("local_server_ok", in.flag, i # 0, "none",
              Reached(folder_ok_calls, in.faults))

rig_data_folder_ok(in) ==
    LET i == FirstFault(folder_ok_calls, in.faults)
    IN Result("rig_data_folder_ok", in.flag, i # 0, "none",
              Reached(folder_ok_calls, in.faults))

\* alyx_server_rig_ok: three try blocks, and the parameter lookup of line
\* 137 between the first and the second, outside any try
alyx_server_rig_ok_calls == <<"ONE", "load_params_file", "glob_remote", "glob_local">>

\* a variant in which a failed ONE() ends the probe
alyx_server_rig_ok_shortcut(in) ==
    LET f == in.faults
        r == IF "glob_remote" \in f THEN 0 ELSE 2
        l == IF "glob_local" \in f THEN 0 ELSE 1
    IN IF "ONE" \in f
       THEN Result("alyx_server_rig_ok", Bin(0), FALSE, "none", {"ONE"})
       ELSE IF "load_params_file" \in f
       THEN Result("alyx_server_rig_ok", Bin(4), TRUE, "none",
                   {"ONE", "load_params_file"})
       ELSE Result("alyx_server_rig_ok", Bin(4 + r + l), FALSE, "none",
                   {"ONE", "load_params_file", "glob_remote", "glob_local"})

alyx_server_rig_ok(in) ==
    LET f == in.faults
        a == IF "ONE" \in f THEN 0 ELSE 4
        r == IF "glob_remote" \in f THEN 0 ELSE 2
        l == IF "glob_local" \in f THEN 0 ELSE 1
    IN IF "load_params_file" \in f
       THEN Result("alyx_server_rig_ok", Bin(a), TRUE, "none",
                   {"ONE", "load_params_file"})
       ELSE Result("alyx_server_rig_ok", Bin(a + r + l), FALSE, "none",
                   {"ONE", "load_params_file", "glob_remote", "glob_local"})

\* rotary_encoder_ok: everything inside one try; m.close() is the fifth call
rotary_encoder_ok_calls ==
    <<"load_params_file", "getitem", "RotaryEncoderModule", "set_zero_position", "close">>

\* the handle after a try block whose calls are calls, opened by call number
\* opened and closed by the last call, when the first fault is call i
HandleAfter(calls, opened, i) ==
    IF i = 0 THEN "closed"
    ELSE IF i <= opened THEN "none"
    ELSE "open"

rotary_encoder_ok(in) ==
    LET i == FirstFault(rotary_encoder_ok_calls, in.faults)
    IN Result("rotary_encoder_ok", i = 0, FALSE,
              HandleAfter(rotary_encoder_ok_calls, 3, i),
              Reached(rotary_encoder_ok_calls, in.faults))

\* bpod_ok: everything inside one try
bpod_ok_calls ==
    <<"load_params_file", "getitem", "Serial", "write_0", "write_1", "close">>

bpod_ok(in) ==
    LET i == FirstFault(bpod_ok_calls, in.faults)
    IN Result("bpod_ok", i = 0, FALSE, HandleAfter(bpod_ok_calls, 3, i),
              Reached(bpod_ok_calls, in.faults))

\* bpod_modules_ok: _grep_param_dict("NAME") before the try, the rest in it
bpod_modules_ok_calls == <<"load_params_file", "Bpod", "modules", "close">>

expected_modules(ephys_rig) ==
    IF ephys_rig THEN {"RotaryEncoder1", "AmbientModule1", "SoundCard1"}
    ELSE {"RotaryEncoder1", "AmbientModule1"}

bpod_modules_ok(in) ==
    LET i == FirstFault(bpod_modules_ok_calls, in.faults)
    IN IF "grep_NAME" \in in.faults
       THEN Result("bpod_modules_ok", FALSE, TRUE, "none", {"grep_NAME"})
       ELSE Result("bpod_modules_ok",
                   i = 0 /\ expected_modules(in.ephys) \subseteq in.mods, FALSE,
                   HandleAfter(bpod_modules_ok_calls, 2, i),
                   {"grep_NAME"} \cup Reached(bpod_modules_ok_calls, in.faults))

\* f2ttl_ok: everything inside one try; in.flag is the value of f.ser.isOpen()
f2ttl_ok_calls == <<"load_params_file", "getitem", "Frame2TTL", "isOpen", "close">>

f2ttl_ok(in) ==
    LET i == FirstFault(f2ttl_ok_calls, in.faults)
    IN Result("f2ttl_ok", (i = 0 \/ i = 5) /\ in.flag, FALSE,
              HandleAfter(f2ttl_ok_calls, 3, i),
              Reached(f2ttl_ok_calls, in.faults))

\* xonar_ok: _grep_param_dict("NAME") before the try; in.n is the number of
\* devices named "XONAR SOUND CARD(64)"
xonar_ok_calls == <<"import_sounddevice", "query_devices">>

xonar_ok(in) ==
    LET i == FirstFault(xonar_ok_calls, in.faults)
    IN IF "grep_NAME" \in in.faults
       THEN Result("xonar_ok", FALSE, TRUE, "none", {"grep_NAME"})
       ELSE IF in.ephys
       THEN Result("xonar_ok", TRUE, FALSE, "none", {"grep_NAME"})
       ELSE Result("xonar_ok", i = 0 /\ in.n = 1, FALSE, "none",
                   {"grep_NAME"} \cup Reached(xonar_ok_calls, in.faults))

Range(s) == {s[i] : i \in 1..Len(s)}

ModuleNames == {"RotaryEncoder1", "AmbientModule1", "SoundCard1"}

MaxXonar == 2

Input(p, f, e, m, b, n) ==
    [probe |-> p, faults |-> f, ephys |-> e, mods |-> m, flag |-> b, n |-> n]

NoInput == Input("none", {}, FALSE, {}, FALSE, 0)

ProbeInputs ==
    {Input("params_comports_ok", f, FALSE, {}, b, 0) :
        f \in SUBSET Range(params_comports_ok_calls), b \in BOOLEAN}
    \cup {Input("alyx_ok", f, FALSE, {}, FALSE, 0) : f \in SUBSET Range(alyx_ok_calls)}
    \cup {Input(p, f, FALSE, {}, b, 0) :
        p \in {"local_server_ok", "rig_data_folder_ok"},
        f \in SUBSET Range(folder_ok_calls), b \in BOOLEAN}
    \cup {Input("alyx_server_rig_ok", f, FALSE, {}, FALSE, 0) :
        f \in SUBSET Range(alyx_server_rig_ok_calls)}
    \cup {Input("rotary_encoder_ok", f, FALSE, {}, FALSE, 0) :
        f \in SUBSET Range(rotary_encoder_ok_calls)}
    \cup {Input("bpod_ok", f, FALSE, {}, FALSE, 0) : f \in SUBSET Range(bpod_ok_calls)}
    \cup {Input("bpod_modules_ok", f, e, m, FALSE, 0) :
        f \in SUBSET ({"grep_NAME"} \cup Range(bpod_modules_ok_calls)),
        e \in BOOLEAN, m \in SUBSET ModuleNames}
    \cup {Input("f2ttl_ok", f, FALSE, {}, b, 0) :
        f \in SUBSET Range(f2ttl_ok_calls), b \in BOOLEAN}
    \cup {Input("xonar_ok", f, e, {}, FALSE, n) :
        f \in SUBSET ({"grep_NAME"} \cup Range(xonar_ok_calls)),
        e \in BOOLEAN, n \in 0..MaxXonar}

ProbeInit ==
    /\ prog = "probe"
    /\ probeIn \in ProbeInputs

CallProbe(p, res) ==
    /\ prog = "probe"
    /\ probeRes = NotCalled
    /\ probeIn.probe = p
    /\ probeRes' = res
    /\ UNCHANGED <<prog, pardict, today, calRes, probeIn, inst>>

CallParamsComportsOk == CallProbe("params_comports_ok", params_comports_ok(probeIn))

CallAlyxOk == CallProbe("alyx_ok", alyx_ok(probeIn))

CallLocalServerOk == CallProbe("local_server_ok", local_server_ok(probeIn))

CallRigDataFolderOk == CallProbe("rig_data_folder_ok", rig_data_folder_ok(probeIn))

CallAlyxServerRigOk == CallProbe("alyx_server_rig_ok", alyx_server_rig_ok(probeIn))

CallRotaryEncoderOk == CallProbe("rotary_encoder_ok", rotary_encoder_ok(probeIn))

CallBpodOk == CallProbe("bpod_ok", bpod_ok(probeIn))

CallBpodModulesOk == CallProbe("bpod_modules_ok", bpod_modules_ok(probeIn))

CallF2ttlOk == CallProbe("f2ttl_ok", f2ttl_ok(probeIn))

CallXonarOk == CallProbe("xonar_ok", xonar_ok(probeIn))

(***************************************************************************)
(* install.py.  The installer's state is the record inst:                  *)
(*   pc       the step about to run ("none" outside the installer)         *)
(*   entry    the function called: main, or one step called directly       *)
(*   args     use_conda and the three responses ("False" is Python False)  *)
(*   first    TRUE in the outermost call of a step (resp as given), FALSE  *)
(*            in a recursive call (resp defaults to False)                 *)
(*   conda    the local variable conda of check_dependencies               *)
(*   cmds     the commands issued by os.system / subprocess.call, in order *)
(*   env      get_env_folder finds an environment matching env_name        *)
(*   params   the iblrig_params directory exists                           *)
(*   windows  sys.platform is a Windows platform                           *)
(*   inputs   lines read from stdin so far                                 *)
(*   prompts, last   how many times user_input was assigned, and the last  *)
(*            value assigned ("none" before the first)                     *)
(*   valid    the previous call of the running step read a 'y' or an 'n'   *)
(*   failed   the try blocks of check_dependencies that raised             *)
(*   ran      the steps of main that have started                          *)
(*   deps_ret the value check_dependencies returned ("none" if it has not) *)
(*   error    the exception that ended the run ("none" if none)            *)
(***************************************************************************)
MaxInputs == 3

RESPONSES == {"y", "n", "False"}

\* what input() may return: a valid answer or something else
Answers == {"y", "n", "x"}

Cmd(tool, what) == [tool |-> tool, what |-> what]

\* the steps of main after check_dependencies, in order
MainSteps ==
    <<"create_environment", "install_iblrig", "configure_iblrig_params", "install_bonsai">>

\* the step main runs after step, "done" after the last one or when the
\* step was called on its own
StepAfter(i, step) ==
    IF i.entry # "main" THEN "done"
    ELSE IF step = "check_dependencies" THEN MainSteps[1]
    ELSE LET k == CHOOSE j \in 1..Len(MainSteps) : MainSteps[j] = step
         IN IF k = Len(MainSteps) THEN "done" ELSE MainSteps[k + 1]

\* the step returns
Leave(i, step) ==
    [i EXCEPT !.pc = StepAfter(i, step), !.first = TRUE, !.valid = FALSE]

\* an exception leaves the step: main's except BaseException prints it, a
\* direct caller receives it; either way nothing else runs
Raise(i, exc) == [i EXCEPT !.pc = "done", !.error = exc]

\* the resp parameter of the current call of a step
Resp(i, given) == IF i.first THEN given ELSE "False"

\* user_input = input() if not resp else resp
UserInputs(resp) == IF resp = "False" THEN Answers ELSE {resp}

\* the state after user_input u was obtained under resp
Asked(i, resp, u) ==
    [i EXCEPT !.prompts = @ + 1, !.last = u,
              !.valid = (u \in {"y", "n"}),
              !.inputs = IF resp = "False" THEN @ + 1 ELSE @,
              !.first = FALSE]

CanAsk(i, resp) == resp # "False" \/ i.inputs < MaxInputs

(***************************************************************************)
(* check_dependencies: seven try blocks.  raises tells whether the body of *)
(* the block raises (os.system reports a failed command by its exit        *)
(* status, which the code ignores; the body raises on an interrupt, a      *)
(* missing interpreter and the like).                                      *)
(***************************************************************************)
\* what the except clause of each block does
OnFail(block) ==
    CASE block = "mamba"  -> "use_conda"
      [] block = "clean"  -> "return_1"
      [] block = "python" -> "return_1"
      [] block = "conda"  -> "raise"
      [] block = "pip"    -> "raise"
      [] block = "git"    -> "raise"
      [] block = "rest"   -> "continue"

DepBlocks == <<"mamba", "clean", "python", "conda", "pip", "git", "rest">>

\* the command each block issues; conda is the value of the variable conda
DepCmd(block, conda) ==
    CASE block = "mamba"  -> Cmd("conda", "install mamba")
      [] block = "clean"  -> Cmd("mamba", "clean")
      [] block = "python" -> Cmd(conda, "update python")
      [] block = "conda"  -> Cmd(conda, "update conda")
      [] block = "pip"    -> Cmd(conda, "install pip")
      [] block = "git"    -> Cmd(conda, "install git")
      [] block = "rest"   -> Cmd(conda, "update --all")

BlockAfter(block) ==
    LET k == CHOOSE j \in 1..Len(DepBlocks) : DepBlocks[j] = block
    IN IF k = Len(DepBlocks) THEN "return_0" ELSE DepBlocks[k + 1]

\* one try block of check_dependencies
DepBlock(i, block, raises) ==
    LET c == IF block = "mamba" THEN (IF raises THEN "conda" ELSE "mamba") ELSE i.conda
        j == [i EXCEPT !.cmds = Append(@, DepCmd(block, i.conda)),
                       !.conda = c,
                       !.ran = @ \cup {"check_dependencies"},
                       !.failed = IF raises THEN @ \cup {block} ELSE @]
        how == IF raises THEN OnFail(block) ELSE "ok"
    IN CASE how = "raise" -> Raise(j, "FileNotFoundError")
         [] how = "return_1" ->
               [j EXCEPT !.deps_ret = "1", !.pc = StepAfter(j, "check_dependencies")]
         [] OTHER ->
               IF BlockAfter(block) = "return_0"
               THEN [j EXCEPT !.deps_ret = "0", !.pc = StepAfter(j, "check_dependencies")]
               ELSE [j EXCEPT !.pc = BlockAfter(block)]

RunBlock(block) ==
    /\ prog = "install"
    /\ inst.pc = block
    /\ \E raises \in BOOLEAN : inst' = DepBlock(inst, block, raises)
    /\ UNCHANGED <<prog, pardict, today, calRes, probeIn, probeRes>>

InstallMamba == RunBlock("mamba")

CleanCache == RunBlock("clean")

UpdatePython == RunBlock("python")

UpdateConda == RunBlock("conda")

UpgradePip == RunBlock("pip")

InstallGit == RunBlock("git")

UpdateRemaining == RunBlock("rest")

(***************************************************************************)
(* The steps of main after check_dependencies.  One action is one call of  *)
(* the step's function; a recursive call is the next action of the step.   *)
(***************************************************************************)
\* what a command that creates or removes the environment leaves behind:
\* os.system's status is ignored and rmtree runs with ignore_errors=True,
\* so either outcome is possible (get_env_folder looks again afterwards)
EnvAfter == BOOLEAN

Started(i, step) == [i EXCEPT !.ran = @ \cup {step}]

\* create_environment, the if env / elif chain on user_input
create_branch_n_removes(user_input) ==
    IF user_input = "x" THEN "again" ELSE "remove_and_again"

create_branch(user_input) ==
    IF user_input = "y" THEN "remove_and_again"
    ELSE IF user_input # "n" /\ user_input # "y" THEN "again"
    ELSE "return"

\* the states one call of create_environment may end in
create_environment(i0) ==
    LET i == Started(i0, "create_environment")
        resp == Resp(i, i.args.reinstall_response)
    IN IF i.first /\ i.args.use_conda
       THEN {Leave([i EXCEPT !.cmds = Append(@, Cmd("mamba", "env create -f")),
                             !.env = e], "create_environment") :
                e \in {e \in EnvAfter : i.env => e}}
       ELSE IF i.env
       THEN IF ~CanAsk(i, resp) THEN {}
            ELSE UNION {
                LET j == Asked(i, resp, u)
                    b == create_branch(u)
                IN CASE b = "remove_and_again" ->
                          {[j EXCEPT !.cmds = Append(@, Cmd("mamba", "env remove")),
                                     !.env = e] : e \in EnvAfter}
                     [] b = "again" -> {j}
                     [] b = "return" -> {Leave(j, "create_environment")}
                : u \in UserInputs(resp)}
       ELSE {Leave([i EXCEPT !.cmds = Append(@, Cmd("mamba", "create")),
                             !.env = e], "create_environment") : e \in EnvAfter}

CreateEnvironment ==
    /\ prog = "install"
    /\ inst.pc = "create_environment"
    /\ inst' \in create_environment(inst)
    /\ UNCHANGED <<prog, pardict, today, calRes, probeIn, probeRes>>

\* install_iblrig: get_env_python joins the environment folder, which is
\* None when no environment is found
install_iblrig(i0) ==
    LET i == Started(i0, "install_iblrig")
    IN IF ~i.env THEN Raise(i, "TypeError")
       ELSE Leave([i EXCEPT !.cmds = Append(@, Cmd("pip", "install -e ."))],
                  "install_iblrig")

InstallIblrig ==
    /\ prog = "install"
    /\ inst.pc = "install_iblrig"
    /\ inst' = install_iblrig(inst)
    /\ UNCHANGED <<prog, pardict, today, calRes, probeIn, probeRes>>

\* configure_iblrig_params, the if / elif chain on user_input
configure_branch_n_resets(user_input) ==
    IF user_input = "x" THEN "again" ELSE "setup"

configure_branch(user_input) ==
    IF user_input = "n" THEN "return"
    ELSE IF user_input = "y" THEN "setup"
    ELSE "again"

SetupCmd == Cmd("python", "setup_default_config.py")

configure_iblrig_params(i0) ==
    LET i == Started(i0, "configure_iblrig_params")
        resp == Resp(i, i.args.config_response)
    IN IF ~i.env THEN {Raise(i, "ValueError")}
       ELSE IF i.params
       THEN IF ~CanAsk(i, resp) THEN {}
            ELSE {LET j == Asked(i, resp, u)
                      b == configure_branch(u)
                  IN CASE b = "return" -> Leave(j, "configure_iblrig_params")
                       [] b = "setup" ->
                            Leave([j EXCEPT !.cmds = Append(@, SetupCmd)],
                                  "configure_iblrig_params")
                       [] b = "again" -> j
                  : u \in UserInputs(resp)}
       ELSE {Leave([i EXCEPT !.params = TRUE, !.cmds = Append(@, SetupCmd)],
                   "configure_iblrig_params")}

ConfigureIblrigParams ==
    /\ prog = "install"
    /\ inst.pc = "configure_iblrig_params"
    /\ inst' \in configure_iblrig_params(inst)
    /\ UNCHANGED <<prog, pardict, today, calRes, probeIn, probeRes>>

\* install_bonsai, the if / elif chain on user_input
bonsai_branch_x_installs(user_input, windows) ==
    IF user_input = "n" THEN "return"
    ELSE IF ~windows THEN "skip" ELSE "setup"

bonsai_branch(user_input, windows) ==
    IF user_input = "y" THEN (IF ~windows THEN "skip" ELSE "setup")
    ELSE IF user_input # "n" /\ user_input # "y" THEN "again"
    ELSE "return"

install_bonsai(i0) ==
    LET i == Started(i0, "install_bonsai")
        resp == Resp(i, i.args.bonsai_response)
    IN IF ~CanAsk(i, resp) THEN {}
       ELSE {LET j == Asked(i, resp, u)
                 b == bonsai_branch(u, i.windows)
             IN CASE b = "setup" ->
                       Leave([j EXCEPT !.cmds = Append(@, Cmd("bonsai", "setup.bat"))],
                             "install_bonsai")
                  [] b = "again" -> j
                  [] OTHER -> Leave(j, "install_bonsai")
             : u \in UserInputs(resp)}

InstallBonsai ==
    /\ prog = "install"
    /\ inst.pc = "install_bonsai"
    /\ inst' \in install_bonsai(inst)
    /\ UNCHANGED <<prog, pardict, today, calRes, probeIn, probeRes>>

\* The arguments: what the argument parser lets through to main, and what a
\* direct caller of one step may pass as resp (any string, or False).
Args(u, r, c, b) ==
    [use_conda |-> u, reinstall_response |-> r, config_response |-> c,
     bonsai_response |-> b]

DirectResp == RESPONSES \cup {"x"}

Entries ==
    {[entry |-> "main", pc |-> "mamba", args |-> Args(u, r, c, b)] :
        u \in BOOLEAN, r \in RESPONSES, c \in RESPONSES, b \in RESPONSES}
    \cup {[entry |-> "create_environment", pc |-> "create_environment",
           args |-> Args(u, r, "False", "False")] : u \in BOOLEAN, r \in DirectResp}
    \cup {[entry |-> "configure_iblrig_params", pc |-> "configure_iblrig_params",
           args |-> Args(FALSE, "False", c, "False")] : c \in DirectResp}
    \cup {[entry |-> "install_bonsai", pc |-> "install_bonsai",
           args |-> Args(FALSE, "False", "False", b)] : b \in DirectResp}

InstStart(e, env, params, windows) ==
    [pc |-> e.pc, entry |-> e.entry, args |-> e.args, first |-> TRUE,
     conda |-> "unset", cmds |-> <<>>, env |-> env, params |-> params,
     windows |-> windows, inputs |-> 0, prompts |-> 0, last |-> "none",
     valid |-> FALSE, failed |-> {}, ran |-> {}, deps_ret |-> "none",
     error |-> "none"]

InstInit ==
    /\ prog = "install"
    /\ inst \in {InstStart(e, env, params, windows) :
                    e \in Entries, env \in BOOLEAN, params \in BOOLEAN,
                    windows \in BOOLEAN}

NoDates == [k \in DateKeys |-> Absent]

Init ==
    /\ \/ CalInit /\ probeIn = NoInput /\ inst = [pc |-> "none"]
       \/ ProbeInit /\ pardict = NoDates /\ today \in Todays /\ inst = [pc |-> "none"]
       \/ InstInit /\ probeIn = NoInput /\ pardict = NoDates /\ today \in Todays
    /\ calRes = NotCalled
    /\ probeRes = NotCalled

Next ==
    \/ CallCalibrationDatesOk
    \/ CallParamsComportsOk
    \/ CallAlyxOk
    \/ CallLocalServerOk
    \/ CallRigDataFolderOk
    \/ CallAlyxServerRigOk
    \/ CallRotaryEncoderOk
    \/ CallBpodOk
    \/ CallBpodModulesOk
    \/ CallF2ttlOk
    \/ CallXonarOk
    \/ InstallMamba
    \/ CleanCache
    \/ UpdatePython
    \/ UpdateConda
    \/ UpgradePip
    \/ InstallGit
    \/ UpdateRemaining
    \/ CreateEnvironment
    \/ InstallIblrig
    \/ ConfigureIblrigParams
    \/ InstallBonsai

Spec == Init /\ [][Next]_vars

(***************************************************************************)
(* Properties of calibration_dates_ok                                      *)
(***************************************************************************)
AllPresent == \A k \in DateKeys : pardict[k] # Absent

\* the calibration of subsystem k is out of its window: date + window < today
Stale(k) == DateLT(AddThresh(Strptime(pardict[k]), k), today)

\* date + window is exactly today
AtBoundary(k) == AddThresh(Strptime(pardict[k]), k) = today

\* date + window was yesterday
JustPast(k) == NextDay(AddThresh(Strptime(pardict[k]), k)) = today

\* C1: with all five dates present, calibration_dates_ok returns True
\* exactly when no subsystem's date plus its window lies before today.
C1_OkIffAllFresh ==
    (calRes.called /\ AllPresent) =>
        (calRes.ret <=> \A k \in DateKeys : ~Stale(k))

\* C2: a date exactly at its threshold is not stale, so the check succeeds
\* when every date is at its boundary; a date one day past the threshold is
\* stale and makes the check fail.
C2_BoundaryNotStale ==
    (calRes.called /\ AllPresent) =>
        /\ (\A k \in DateKeys : AtBoundary(k)) => calRes.ret
        /\ (\E k \in DateKeys : JustPast(k)) => ~calRes.ret

\* C3: if any of the five dates is absent, calibration_dates_ok returns
\* False whatever the other four are, without parsing or comparing a date
\* and without raising.
C3_AbsentFails ==
    (calRes.called /\ ~AllPresent) =>
        /\ ~calRes.ret
        /\ ~calRes.parsed
        /\ ~calRes.raised
        /\ \A k \in DateKeys : calRes.out[k] = "None"

\* one date is absent and the other four are such that the comparison of
\* line 94 would be True for each
C3_Witness ==
    /\ calRes.called
    /\ pardict["WATER_CALIBRATION_DATE"] = Absent
    /\ \A k \in DateKeys \ {"WATER_CALIBRATION_DATE"} :
            pardict[k] # Absent /\ Stale(k)
    /\ ~calRes.ret

(***************************************************************************)
(* Properties of the probes                                                *)
(***************************************************************************)
RECURSIVE BinValue(_)
\* the number a string of binary digits denotes
BinValue(s) ==
    IF Len(s) = 0 THEN 0
    ELSE 2 * BinValue(SubSeq(s, 1, Len(s) - 1)) + (IF s[Len(s)] = "1" THEN 1 ELSE 0)

\* the value of the string bin() returned
ValueOf(s) == BinValue(SubSeq(s, 3, Len(s)))

BitSet(v, b) == (v \div (2 ^ b)) % 2 = 1

Ran(p) == probeRes.called /\ probeRes.probe = p

\* C4: alyx_server_rig_ok returns the value whose bit 2 is set iff ONE()
\* succeeded, bit 1 iff the remote folder was listed and bit 0 iff the local
\* folder was listed; it is 0b111 only when all three succeed, and a failed
\* check does not keep the later ones from being attempted.
C4_BitPattern ==
    (Ran("alyx_server_rig_ok") /\ ~probeRes.raised) =>
        LET v == ValueOf(probeRes.ret)
            f == probeIn.faults
        IN /\ SubSeq(probeRes.ret, 1, 2) = <<"0", "b">>
           /\ v \in 0..7
           /\ BitSet(v, 2) <=> "ONE" \notin f
           /\ BitSet(v, 1) <=> "glob_remote" \notin f
           /\ BitSet(v, 0) <=> "glob_local" \notin f
           /\ (probeRes.ret = <<"0", "b", "1", "1", "1">>)
                <=> (f \cap {"ONE", "glob_remote", "glob_local"} = {})
           /\ {"ONE", "glob_remote", "glob_local"} \subseteq probeRes.attempted

\* ONE() failed, both folders were listed: '0b11'
C4_Witness ==
    /\ Ran("alyx_server_rig_ok")
    /\ probeIn.faults = {"ONE"}
    /\ probeRes.ret = <<"0", "b", "1", "1">>
    /\ "glob_local" \in probeRes.attempted

\* the probes that return a boolean
BoolProbes ==
    {"params_comports_ok", "alyx_ok", "local_server_ok", "rig_data_folder_ok",
     "rotary_encoder_ok", "bpod_ok", "bpod_modules_ok", "f2ttl_ok", "xonar_ok"}

\* a call the probe reached raised
SomeCallRaised == probeRes.called /\ probeRes.attempted \cap probeIn.faults # {}

\* C5: if any call a probe makes raises, the probe returns its failure
\* value and the exception does not reach the caller.
C5_NoExceptionEscapes ==
    SomeCallRaised =>
        /\ ~probeRes.raised
        /\ probeRes.probe \in BoolProbes => probeRes.ret = FALSE
        /\ probeRes.probe = "alyx_server_rig_ok" =>
                probeRes.ret # <<"0", "b", "1", "1", "1">>

\* the probes that open a device handle
HandleProbes == {"rotary_encoder_ok", "bpod_ok", "bpod_modules_ok", "f2ttl_ok"}

\* C7: a probe that opened a device handle has closed it when it returns,
\* whether it succeeded or a call after the opening raised.
C7_HandleReleased ==
    (probeRes.called /\ probeRes.probe \in HandleProbes /\ ~probeRes.raised) =>
        probeRes.handle # "open"

(***************************************************************************)
(* Properties of the installer                                             *)
(***************************************************************************)
Installing == prog = "install"

Count(cmds, c) == Cardinality({k \in 1..Len(cmds) : cmds[k] = c})

RemoveCmd == Cmd("mamba", "env remove")

CreateCmd == Cmd("mamba", "create")

BonsaiCmd == Cmd("bonsai", "setup.bat")

\* this step assigned user_input the value u
Answered(u) == inst'.prompts = inst.prompts + 1 /\ inst'.last = u

NoPrompt == inst'.prompts = inst.prompts /\ inst'.inputs = inst.inputs

\* nothing was removed, created, reset or installed by this step
NoEffect ==
    /\ inst'.cmds = inst.cmds
    /\ inst'.env = inst.env
    /\ inst'.params = inst.params

\* the step returned normally
Returned == inst'.pc # inst.pc /\ inst'.error = "none"

AbortBlocks == {"clean", "python", "conda", "pip", "git"}

\* C8: when a block of check_dependencies whose policy is to abort fails,
\* none of the later steps of main is executed; when the block whose policy
\* is to continue fails, check_dependencies completes and main goes on.
C8_FailPolicy ==
    (Installing /\ inst.entry = "main") =>
        /\ (inst.failed \cap AbortBlocks # {}) => (inst.ran \cap Range(MainSteps) = {})
        /\ (inst.failed \cap AbortBlocks = {} /\ "rest" \in inst.failed) =>
                (inst.deps_ret = "0" /\ inst.error # "FileNotFoundError")

Setups(i) == Count(i.cmds, SetupCmd)

AtStep(step) == Installing /\ inst.pc = step

\* C9: configure_iblrig_params fails with an error, before prompting or
\* touching the directory, when the environment does not exist; otherwise it
\* leaves an existing configuration alone on 'n' (the setup script is not
\* run), and runs the setup script exactly once on 'y' or when the directory
\* did not exist (which it then creates).
C9_Configure ==
    [][AtStep("configure_iblrig_params") =>
        /\ ~inst.env =>
              /\ inst'.error = "ValueError" /\ inst'.pc = "done"
              /\ NoPrompt /\ NoEffect
        /\ (inst.env /\ ~inst.params) =>
              /\ NoPrompt /\ Returned
              /\ inst'.params
              /\ inst'.cmds = Append(inst.cmds, SetupCmd)
        /\ (inst.env /\ inst.params) =>
              /\ inst'.prompts = inst.prompts + 1
              /\ Answered("n") => (NoEffect /\ Returned)
              /\ Answered("y") =>
                    /\ inst'.cmds = Append(inst.cmds, SetupCmd)
                    /\ inst'.params
                    /\ Returned
        /\ Setups(inst') <= 1
        /\ Setups(inst') = 1 => inst'.pc # "configure_iblrig_params"
      ]_vars

\* called directly on an existing directory: an invalid answer, then 'y',
\* and the setup script has run once
C9_Witness ==
    /\ Installing
    /\ inst.entry = "configure_iblrig_params"
    /\ inst.pc = "done"
    /\ inst.prompts = 2
    /\ inst.last = "y"
    /\ inst.cmds = <<SetupCmd>>

Interactive == {"create_environment", "configure_iblrig_params", "install_bonsai"}

\* the step is one that asks: create_environment on an existing environment
\* (without the YAML option), configure_iblrig_params on an existing
\* directory, install_bonsai
Asking ==
    /\ Installing
    /\ \/ inst.pc = "create_environment" /\ inst.env
                /\ ~(inst.first /\ inst.args.use_conda)
       \/ inst.pc = "configure_iblrig_params" /\ inst.env /\ inst.params
       \/ inst.pc = "install_bonsai"

\* what the step does on 'y'
ActsOnYes ==
    CASE inst.pc = "create_environment" ->
            inst'.cmds = Append(inst.cmds, RemoveCmd)
      [] inst.pc = "configure_iblrig_params" ->
            inst'.cmds = Append(inst.cmds, SetupCmd) /\ Returned
      [] inst.pc = "install_bonsai" ->
            /\ Returned
            /\ inst'.cmds = IF inst.windows THEN Append(inst.cmds, BonsaiCmd)
                            ELSE inst.cmds

\* an answer other than 'y' or 'n' changes nothing and the step asks again,
\* this time reading stdin; 'n' ends the step without effect; 'y' is acted on
AnswerHandling ==
    Asking =>
        /\ inst'.prompts = inst.prompts + 1
        /\ inst'.last \in {"y", "n"} \/
              /\ NoEffect
              /\ inst'.error = "none"
              /\ inst'.pc = inst.pc
              /\ ~inst'.first /\ ~inst'.valid
        /\ Answered("n") => (NoEffect /\ Returned)
        /\ Answered("y") => ActsOnYes

\* a step whose previous call read a valid answer and did not return: only
\* create_environment after 'y', about to look the environment up again
AfterValid == Installing /\ inst.pc \in Interactive /\ inst.valid

\* C6 as stated: an invalid answer causes a re-prompt without any effect,
\* and once a valid answer is given the step acts on it and terminates.
C6_RepromptThenTerminate ==
    [][/\ AnswerHandling
       /\ AfterValid => (NoPrompt /\ Returned)
      ]_vars

\* C6 as amended: as above, except that create_environment after 'y' asks
\* again when the environment is still found after the removal.
C6_RepromptUntilValid ==
    [][/\ AnswerHandling
       /\ AfterValid =>
            /\ inst.pc = "create_environment" /\ inst.last = "y"
            /\ ~inst.env => (NoPrompt /\ Returned)
            /\ inst.env => inst'.prompts = inst.prompts + 1
      ]_vars

\* install_bonsai called directly on Windows: an invalid answer, then 'y',
\* and setup.bat has run once
C6_Witness ==
    /\ Installing
    /\ inst.entry = "install_bonsai"
    /\ inst.windows
    /\ inst.pc = "done"
    /\ inst.prompts = 2
    /\ inst.last = "y"
    /\ inst.cmds = <<BonsaiCmd>>

\* create_environment without the YAML option
CreatingEnv ==
    Installing /\ inst.pc = "create_environment" /\ ~(inst.first /\ inst.args.use_conda)

CreateIssued == inst'.cmds = Append(inst.cmds, CreateCmd)

\* the parts of C10 that do not depend on the outcome of the removal
CreateRules ==
    CreatingEnv =>
        /\ Len(inst'.cmds) > Len(inst.cmds) =>
              \/ CreateIssued /\ ~inst.env /\ Returned
              \/ inst'.cmds = Append(inst.cmds, RemoveCmd) /\ Answered("y")
        /\ Answered("n") => (NoEffect /\ Returned)
        /\ Answered("y") =>
              /\ inst'.cmds = Append(inst.cmds, RemoveCmd)
              /\ inst'.pc = inst.pc
        /\ ~inst.env => (CreateIssued /\ NoPrompt /\ Returned)
        /\ Count(inst'.cmds, CreateCmd) <= 1

\* C10 as stated: the create command is issued only when no environment was
\* found; on 'n' nothing is removed or created; on 'y' the environment is
\* removed, the create command is then issued exactly once and the step
\* terminates without asking again.
C10_CreateOnceAfterRemove ==
    [][/\ CreateRules
       /\ (CreatingEnv /\ inst.valid /\ inst.last = "y") =>
            (CreateIssued /\ NoPrompt /\ Returned)
      ]_vars

\* C10 as amended: after 'y' and the removal the environment is looked up
\* again; the create command is issued (once, without asking) if it is no
\* longer found, and the step asks again, creating nothing, if it still is.
C10_CreateOnlyWhenAbsent ==
    [][/\ CreateRules
       /\ (CreatingEnv /\ inst.valid /\ inst.last = "y" /\ ~inst.env) =>
            (CreateIssued /\ NoPrompt /\ Returned)
       /\ (CreatingEnv /\ inst.valid /\ inst.env) =>
            (inst'.prompts = inst.prompts + 1 /\ ~CreateIssued)
      ]_vars

\* create_environment called directly on an existing environment: 'y', the
\* removal, then the create command, and the step has returned
C10_Witness ==
    /\ Installing
    /\ inst.entry = "create_environment"
    /\ inst.pc = "done"
    /\ inst.prompts = 1
    /\ inst.last = "y"
    /\ inst.cmds = <<RemoveCmd, CreateCmd>>

\* the commands issued after the block that installs mamba (the first one)
AfterMambaBlock == {inst.cmds[k] : k \in 2..Len(inst.cmds)}

\* C11: if installing mamba fails the installer falls back to conda: every
\* package-manager command issued from then on is a conda command and no
\* mamba command is invoked.
C11_CondaAfterFallback ==
    (Installing /\ inst.entry = "main" /\ "mamba" \in inst.failed) =>
        /\ inst.conda = "conda"
        /\ \A c \in AfterMambaBlock : c.tool # "mamba"
====
